---- MODULE Spec2Model ----
\* Model of generate.py (hkva/ghidra-directx-data): the source sanitizer
\* process_source, the compiler wrapper run_gcc and the __main__ script.
\*
\* Text is a sequence of tokens.  A token is a piece of text that the regular
\* expressions of the script treat as a unit: the keywords they look for
\* ("__asm__", "__int128", ".0f16", "#define"), the single characters they
\* name (" ", "(", ")", ";", "\n") and opaque pieces that contain none of them.
EXTENDS Integers, Sequences, FiniteSets, TLC

VARIABLES
    source,     \* process_source: the text handed to the sanitizer
    once,       \* process_source(source)
    twice,      \* process_source(process_source(source))
    spc,        \* position of the sanitizer harness: "raw", "once", "twice"
    pc,         \* position of __main__
    args,       \* sys.argv[1:], the positional arguments
    status,     \* exit status of the process, -1 while it runs
    printed,    \* messages printed so far, in order
    calls,      \* compiler invocations made so far: [step, gcc, rc]
    hdr,        \* <name>_<arch>.h : [state, name, buf, disk]
    optf,       \* <name>_<arch>_parser_options.txt : [state, name, buf, disk]
    opts,       \* the option list being assembled
    gccOut,     \* the text returned by the last successful run_gcc
    out         \* gccOut.splitlines() of the option generator

srcVars  == <<source, once, twice, spc>>
mainVars == <<pc, args, status, printed, calls, hdr, optf, opts, gccOut, out>>
vars     == <<source, once, twice, spc, pc, args, status, printed, calls, hdr, optf, opts, gccOut, out>>

----------------------------------------------------------------------------
\* Bounds of the model

MaxPieces == 4        \* pieces of text a sanitizer input is built from
MaxArgs == 3          \* positional arguments on the command line
MaxVerboseLines == 4  \* lines of the verbose compile output
MaxDumpLines == 2     \* lines of the macro dump

----------------------------------------------------------------------------
\* Sequence helpers

Max(S) == CHOOSE x \in S : \A y \in S : y <= x
Min(S) == CHOOSE x \in S : \A y \in S : x <= y

RECURSIVE Flatten(_)
Flatten(ss) == IF ss = <<>> THEN <<>> ELSE Head(ss) \o Flatten(Tail(ss))

RECURSIVE SeqsUpTo(_, _)
SeqsUpTo(S, n) ==
    IF n = 0 THEN {<<>>}
    ELSE LET shorter == SeqsUpTo(S, n - 1)
         IN  shorter \cup {Append(s, x) : s \in {t \in shorter : Len(t) = n - 1}, x \in S}

Contains(s, t) == \E i \in 1..Len(s) : s[i] = t

----------------------------------------------------------------------------
\* process_source (generate.py:80-87)

\* replacement text of the __asm__ rule (line 82)
AsmRepl == <<"(", "void", ")", "123", ";", " ", "/* GHIDRA: Removed ", "__asm__", " ", "statement */">>

\* replacement text of the __int128 rule (line 84)
Int128Repl == <<"long", " ", "/* GHIDRA: Removed ", "__int128", " ", "*/">>

\* replacement text of the .0f16 rule (line 86)
F16ReplKeepsSuffix == <<".0f", " ", "/* GHIDRA: Removed ", ".0f16", " ", "*/">>
F16Repl == <<".0f", " ", "/* GHIDRA: Removed f16 */">>

\* Last index of the line that holds position i ('.' does not match "\n").
LineEnd(s, i) ==
    LET nls == {k \in i..Len(s) : s[k] = "\n"}
    IN  IF nls = {} THEN Len(s) ELSE Min(nls) - 1

\* r'__asm__ .*\(.*\);' tried at position i: the index of the last token of
\* the match, 0 if there is no match at i.  Both '.*' are greedy, so the match
\* runs to the last ");" of the line that has a "(" between it and the keyword.
AsmMatchEnd(s, i) ==
    IF s[i] = "__asm__" /\ i + 1 <= Len(s) /\ s[i + 1] = " "
    THEN LET e == LineEnd(s, i)
             ks == {k \in (i + 3)..(e - 1) :
                        /\ s[k] = ")" /\ s[k + 1] = ";"
                        /\ \E j \in (i + 2)..(k - 1) : s[j] = "("}
         IN  IF ks = {} THEN 0 ELSE Max(ks) + 1
    ELSE 0

\* re.sub of the __asm__ rule: leftmost match first, then on after its end.
RECURSIVE SubAsm(_)
SubAsm(s) ==
    LET starts == {i \in 1..Len(s) : AsmMatchEnd(s, i) # 0}
    IN  IF starts = {} THEN s
        ELSE LET i == Min(starts)
                 e == AsmMatchEnd(s, i)
             IN  SubSeq(s, 1, i - 1) \o AsmRepl \o SubAsm(SubSeq(s, e + 1, Len(s)))

\* re.sub of a pattern that is one keyword: every occurrence is replaced.
SubToken(s, tok, repl) ==
    Flatten([i \in 1..Len(s) |-> IF s[i] = tok THEN repl ELSE <<s[i]>>])

process_source(s) ==
    SubToken(SubToken(SubAsm(s), "__int128", Int128Repl), ".0f16", F16Repl)

\* Pieces the sanitizer inputs are built from.
AsmNop == <<"__asm__", "(", "\"nop\"", ")", ";">>
Pieces ==
    { <<"__asm__">>, <<" ">>, <<"(", "\"nop\"", ")", ";">>, <<"\n">>,
      <<"__int128">>, <<".0f16">>, <<"x">> }
Sources == {Flatten(ps) : ps \in SeqsUpTo(Pieces, MaxPieces)}

InitSrc ==
    /\ source \in Sources
    /\ once = <<>> /\ twice = <<>> /\ spc = "raw"
    /\ pc = "idle" /\ args = <<>> /\ status = -1 /\ printed = <<>> /\ calls = <<>>
    /\ hdr = [state |-> "absent", name |-> <<>>, buf |-> <<>>, disk |-> <<>>]
    /\ optf = [state |-> "absent", name |-> <<>>, buf |-> <<>>, disk |-> <<>>]
    /\ opts = <<>> /\ gccOut = <<>> /\ out = <<>>

Sanitize ==
    /\ spc = "raw"
    /\ once' = process_source(source)
    /\ spc' = "once"
    /\ UNCHANGED <<source, twice>>
    /\ UNCHANGED mainVars

SanitizeAgain ==
    /\ spc = "once"
    /\ twice' = process_source(once)
    /\ spc' = "twice"
    /\ UNCHANGED <<source, once>>
    /\ UNCHANGED mainVars

NextSrc == Sanitize \/ SanitizeAgain

SpecSrc == InitSrc /\ [][NextSrc]_vars

\* The text s with every occurrence of the statement __asm__("nop"); replaced
\* by the inert statement and marker comment, and nothing else touched.
RECURSIVE AsmNopRemoved(_)
AsmNopRemoved(s) ==
    IF s = <<>> THEN <<>>
    ELSE IF Len(s) >= Len(AsmNop) /\ SubSeq(s, 1, Len(AsmNop)) = AsmNop
         THEN AsmRepl \o AsmNopRemoved(SubSeq(s, Len(AsmNop) + 1, Len(s)))
         ELSE <<Head(s)>> \o AsmNopRemoved(Tail(s))

HasAsmNop(s) ==
    \E i \in 1..(Len(s) - Len(AsmNop) + 1) : SubSeq(s, i, i + Len(AsmNop) - 1) = AsmNop

\* C1: for raw text that contains the statement __asm__("nop"); (and neither
\* __int128 nor .0f16), process_source returns the text with that statement
\* replaced by the inert statement carrying the marker comment and every
\* other character unchanged.
C1_AsmNopReplaced ==
    (/\ spc # "raw"
     /\ HasAsmNop(source)
     /\ ~Contains(source, "__int128") /\ ~Contains(source, ".0f16"))
    => once = AsmNopRemoved(source)

\* C2 as stated: process_source(process_source(s)) = process_source(s) for
\* every input text s.
C2_Idempotent == spc = "twice" => twice = once

\* C2 amended: a second application changes the text exactly when the first
\* result holds the keyword __int128 (the __int128 rule fired and left it in
\* its marker comment); for every other text, texts with __asm__ statements
\* and .0f16 included, process_source is idempotent.
C2_IdempotentUnlessInt128 ==
    spc = "twice" => (twice = once <=> ~Contains(once, "__int128"))

\* C2 witness: the __asm__ rule and the .0f16 rule both fired, the __int128
\* rule did not, and the second application has run.
C2_Witness ==
    /\ spc = "twice"
    /\ Contains(once, "statement */") /\ Contains(once, "/* GHIDRA: Removed f16 */")
    /\ ~Contains(once, "__int128")
    /\ once # source /\ twice = once

----------------------------------------------------------------------------
\* Tables of generate.py.  A flag is a text; the fixed flags are one token each.

MINGW_OPTIONS ==
    << <<"-DCONST=\"const\"">>, <<"-D__restrict__=\"\"">>,
       <<"-D__always_inline__=\"inline\"">>, <<"-D__gnu_inline__=\"inline\"">>,
       <<"-D__builtin_va_list=\"void *\"">> >>

DEFAULT_OPTIONS_32 ==
    << <<"-D_X86_">>, <<"-D__STDC__">>, <<"-D_GNU_SOURCE">>, <<"-D__WORDSIZE=32">>,
       <<"-D__builtin_va_list=void *">>, <<"-D__DO_NOT_DEFINE_COMPILE">>,
       <<"-D_Complex">>, <<"-D__NO_STRING_INLINES">>, <<"-D__NO_LONG_DOUBLE_MATH">>,
       <<"-D__signed__">>, <<"-D__extension__=\"\"">>, <<"-D__GLIBC_HAVE_LONG_LONG=1">>,
       <<"-Daligned_u64=uint64_t">> >>

DEFAULT_OPTIONS_64 ==
    << <<"-D_X86_">>, <<"-D__STDC__">>, <<"-D_GNU_SOURCE">>, <<"-D__WORDSIZE=64">>,
       <<"-D__builtin_va_list=void *">>, <<"-D__DO_NOT_DEFINE_COMPILE">>,
       <<"-D_Complex">>, <<"-D__NO_STRING_INLINES">>, <<"-D__signed__">>,
       <<"-D__extension__=\"\"">>, <<"-D__GLIBC_HAVE_LONG_LONG=1">>,
       <<"-D__need_sigset_t">>, <<"-Daligned_u64=uint64_t">> >>

GCC_FLAGS == <<"-std=c99", "-I.">>

DEFAULT_SOURCE == <<"DEFAULT_SOURCE">>

empty_file == <<" /* :) */ ">>

\* Messages
UsageMsg == "Usage: <target> <32|64>"
ArchMsg == "Architecture must be either 32 or 64"
GeneratingMsg == "Generating profile"
ProcessingMsg == "Processing sources..."
OptionsMsg == "Generating parser options..."
GccFailedMsg == "GCC command failed"
ValueErrorMsg == "ValueError: is not in list"
TypeErrorMsg == "TypeError: 'NoneType' object is not subscriptable"

----------------------------------------------------------------------------
\* Files: open(..., 'w') creates or truncates; write() appends to the pending
\* writes; leaving the with block (normally or by an exception) closes the
\* file, which puts the pending writes on disk.

Absent == [state |-> "absent", name |-> <<>>, buf |-> <<>>, disk |-> <<>>]
Opened(name) == [state |-> "open", name |-> name, buf |-> <<>>, disk |-> <<>>]
Written(f, text) == [f EXCEPT !.buf = Append(@, text)]
Closed(f) == [f EXCEPT !.state = "closed", !.buf = <<>>, !.disk = f.disk \o f.buf]

----------------------------------------------------------------------------
\* Inputs

ArgValues == {"d3d9", "32", "64", "99"}
ArgLists == SeqsUpTo(ArgValues, MaxArgs)

ReturnCodes == {0, 1}

\* A compiler output of the given lines, each ended by a newline.
Text(lines) == Flatten([i \in 1..Len(lines) |-> lines[i] \o <<"\n">>])

\* Preprocessed headers
HeaderTexts ==
    { Text(<< <<"typedef", " ", "int", " ", "x", ";">> >>),
      Text(<< <<"__asm__", " ", "(", "\"nop\"", ")", ";">>, <<"__int128", " ", "x", ";">> >>) }

\* Lines of the verbose compile output
StartMarker == "#include <...> search starts here:"
EndMarker == "End of search list."
VerboseLines ==
    { <<StartMarker>>, <<EndMarker>>, <<" ", "/mingw/include">>,
      <<" ", "/lib/gcc", " ", "include", " ">> }
VerboseTexts == {Text(ls) : ls \in SeqsUpTo(VerboseLines, MaxVerboseLines)}

\* Lines of the macro dump
DumpLines ==
    { <<"#define", " ", "_WIN32", " ", "1">>,
      <<"#define", " ", "__VERSION__", " ", "\"13\"", " ", "\"win32\"">>,
      <<"#define", " ", "__USER_LABEL_PREFIX__", " ">>,
      <<"#define", " ", "_X86_">> }
DumpTexts == {Text(ls) : ls \in SeqsUpTo(DumpLines, MaxDumpLines)}

----------------------------------------------------------------------------
\* str.splitlines(): the lines of a text; a final newline opens no line.
RECURSIVE splitlines(_)
splitlines(s) ==
    IF s = <<>> THEN <<>>
    ELSE LET e == LineEnd(s, 1)
         IN  <<SubSeq(s, 1, e)>> \o splitlines(SubSeq(s, e + 2, Len(s)))

\* str.strip(): leading and trailing whitespace removed.
IsSpace(c) == c \in {" ", "\t", "\n"}
strip(s) ==
    LET keep == {i \in 1..Len(s) : ~IsSpace(s[i])}
    IN  IF keep = {} THEN <<>> ELSE SubSeq(s, Min(keep), Max(keep))

\* list.index(x): the first position of x, 0 for ValueError.
index(l, x) ==
    LET at == {i \in 1..Len(l) : l[i] = x}
    IN  IF at = {} THEN 0 ELSE Min(at)

\* l[a:b] for 0-based bounds a, b within the list.
sliceFromA(l, a, b) == SubSeq(l, a, b)
slice(l, a, b) == SubSeq(l, a + 1, b)

\* re.search(r'#define ([^ ]*) (.*)', i): [ok, name, value].  The leftmost
\* "#define " whose following run of non-space text is ended by a space.
DefineMatchLastSpace(line) ==
    LET at == {i \in 1..(Len(line) - 2) :
                  /\ line[i] = "#define" /\ line[i + 1] = " "
                  /\ \E j \in (i + 2)..Len(line) : line[j] = " "}
    IN  IF at = {} THEN [ok |-> FALSE, name |-> <<>>, value |-> <<>>]
        ELSE LET i == Min(at)
                 j == Max({k \in (i + 2)..Len(line) : line[k] = " "})
             IN  [ok |-> TRUE, name |-> SubSeq(line, i + 2, j - 1),
                  value |-> SubSeq(line, j + 1, Len(line))]
DefineMatch(line) ==
    LET at == {i \in 1..(Len(line) - 2) :
                  /\ line[i] = "#define" /\ line[i + 1] = " "
                  /\ \E j \in (i + 2)..Len(line) : line[j] = " "}
    IN  IF at = {} THEN [ok |-> FALSE, name |-> <<>>, value |-> <<>>]
        ELSE LET i == Min(at)
                 j == Min({k \in (i + 2)..Len(line) : line[k] = " "})
             IN  [ok |-> TRUE, name |-> SubSeq(line, i + 2, j - 1),
                  value |-> SubSeq(line, j + 1, Len(line))]

\* f'-D{m[1]}="{m[2]}"'
DefineFlag(m) == <<"-D">> \o m.name \o <<"=\"">> \o m.value \o <<"\"">>

\* f'-I{inc.strip()}'
IncludeFlag(inc) == <<"-I">> \o strip(inc)

----------------------------------------------------------------------------
\* __main__ (generate.py:98-137)

a_name == args[1]
a_arch == args[2]

\* line 99
BadArgcAtMost(argc) == argc < 3
BadArgc(argc) == argc # 3

\* line 106
BadArchTypo(arch) == arch # "32" /\ arch = "64"
BadArch(arch) == arch # "32" /\ arch # "64"

\* line 111
gcc_cmd(arch) == IF arch = "64" THEN "x86_64-w64-mingw32-gcc" ELSE "i686-w64-mingw32-gcc"

\* line 124
DefaultOptionsBy64(arch) == IF arch = "64" THEN DEFAULT_OPTIONS_64 ELSE DEFAULT_OPTIONS_32
DefaultOptions(arch) == IF arch = "x64" THEN DEFAULT_OPTIONS_64 ELSE DEFAULT_OPTIONS_32

\* run_gcc, line 92
GccFailedNever(rc) == FALSE
GccFailed(rc) == rc # 0

\* run_gcc, line 90: the invocation as the child process sees it
Invocation(step, gcc, flags, input, rc) ==
    [step |-> step, argv |-> <<gcc>> \o GCC_FLAGS \o flags \o <<"-">>, input |-> input, rc |-> rc]

HeaderName == <<a_name, "_", a_arch, ".h">>
OptionsName == <<a_name, "_", a_arch, "_parser_options.txt">>

Init ==
    /\ source = <<>> /\ once = <<>> /\ twice = <<>> /\ spc = "idle"
    /\ pc = "start"
    /\ args \in ArgLists
    /\ status = -1 /\ printed = <<>> /\ calls = <<>>
    /\ hdr = Absent /\ optf = Absent
    /\ opts = <<>> /\ gccOut = <<>> /\ out = <<>>

\* exit(1) or an unhandled exception: the open files are closed on the way out
Exit(msg, code, h, o) ==
    /\ printed' = Append(printed, msg)
    /\ status' = code
    /\ pc' = "exited"
    /\ hdr' = IF h.state = "open" THEN Closed(h) ELSE h
    /\ optf' = IF o.state = "open" THEN Closed(o) ELSE o

\* lines 99-101
CheckArgc ==
    /\ pc = "start"
    /\ IF BadArgc(Len(args) + 1)
       THEN Exit(UsageMsg, 1, hdr, optf)
       ELSE /\ pc' = "argc_ok"
            /\ UNCHANGED <<status, printed, hdr, optf>>
    /\ UNCHANGED <<args, calls, opts, gccOut, out>>
    /\ UNCHANGED srcVars

\* lines 103-111
CheckArch ==
    /\ pc = "argc_ok"
    /\ IF BadArch(a_arch)
       THEN Exit(ArchMsg, 1, hdr, optf)
       ELSE /\ pc' = "arch_ok"
            /\ printed' = Append(printed, GeneratingMsg)
            /\ UNCHANGED <<status, hdr, optf>>
    /\ UNCHANGED <<args, calls, opts, gccOut, out>>
    /\ UNCHANGED srcVars

\* lines 114-115
OpenHeader ==
    /\ pc = "arch_ok"
    /\ printed' = Append(printed, ProcessingMsg)
    /\ hdr' = Opened(HeaderName)
    /\ pc' = "hdr_open"
    /\ UNCHANGED <<args, status, calls, optf, opts, gccOut, out>>
    /\ UNCHANGED srcVars

\* line 116
WritePrologue ==
    /\ pc = "hdr_open"
    /\ hdr' = Written(hdr, DEFAULT_SOURCE)
    /\ pc' = "hdr_prologue"
    /\ UNCHANGED <<args, status, printed, calls, optf, opts, gccOut, out>>
    /\ UNCHANGED srcVars

\* line 117
PreprocessHeader ==
    /\ pc = "hdr_prologue"
    /\ \E rc \in ReturnCodes :
         /\ calls' = Append(calls, Invocation("preprocess", gcc_cmd(a_arch), <<"-P", "-E">>,
                                              <<"#include <", a_name, ".h>">>, rc))
         /\ IF GccFailed(rc)
            THEN /\ Exit(GccFailedMsg, 1, hdr, optf)
                 /\ UNCHANGED gccOut
            ELSE \E text \in HeaderTexts :
                 /\ gccOut' = text
                 /\ hdr' = Written(hdr, process_source(text))
                 /\ pc' = "hdr_written"
                 /\ UNCHANGED <<status, printed, optf>>
    /\ UNCHANGED <<args, opts, out>>
    /\ UNCHANGED srcVars

\* end of the with block of line 115
CloseHeaderLeftOpen ==
    /\ pc = "hdr_written"
    /\ pc' = "hdr_closed"
    /\ UNCHANGED <<args, status, printed, calls, hdr, optf, opts, gccOut, out>>
    /\ UNCHANGED srcVars
CloseHeader ==
    /\ pc = "hdr_written"
    /\ hdr' = Closed(hdr)
    /\ pc' = "hdr_closed"
    /\ UNCHANGED <<args, status, printed, calls, optf, opts, gccOut, out>>
    /\ UNCHANGED srcVars

\* lines 121-124
OpenOptions ==
    /\ pc = "hdr_closed"
    /\ printed' = Append(printed, OptionsMsg)
    /\ optf' = Opened(OptionsName)
    /\ opts' = MINGW_OPTIONS \o DefaultOptions(a_arch)
    /\ pc' = "opt_open"
    /\ UNCHANGED <<args, status, calls, hdr, gccOut, out>>
    /\ UNCHANGED srcVars

\* lines 126-129
DiscoverIncludes ==
    /\ pc = "opt_open"
    /\ \E rc \in ReturnCodes :
         /\ calls' = Append(calls, Invocation("verbose", gcc_cmd(a_arch), <<"-xc", "-E", "-v">>,
                                              empty_file, rc))
         /\ IF GccFailed(rc)
            THEN /\ Exit(GccFailedMsg, 1, hdr, optf)
                 /\ UNCHANGED <<gccOut, out, opts>>
            ELSE \E text \in VerboseTexts :
                 LET lines == splitlines(text)
                     first == index(lines, <<StartMarker>>)
                     last == index(lines, <<EndMarker>>)
                 IN  /\ gccOut' = text
                     /\ out' = lines
                     /\ IF first = 0 \/ last = 0
                        THEN /\ Exit(ValueErrorMsg, 1, hdr, optf)
                             /\ UNCHANGED opts
                        ELSE /\ opts' = opts \o [k \in 1..Len(slice(lines, first, last - 1)) |->
                                                    IncludeFlag(slice(lines, first, last - 1)[k])]
                             /\ pc' = "includes_done"
                             /\ UNCHANGED <<status, printed, hdr, optf>>
    /\ UNCHANGED args
    /\ UNCHANGED srcVars

\* the loop of lines 132-134 over the lines from position k on: [ok, opts]
RECURSIVE AppendDefines(_, _, _)
AppendDefines(lines, k, acc) ==
    IF k > Len(lines) THEN [ok |-> TRUE, opts |-> acc]
    ELSE LET m == DefineMatch(lines[k])
         IN  IF m.ok THEN AppendDefines(lines, k + 1, Append(acc, DefineFlag(m)))
             ELSE [ok |-> FALSE, opts |-> acc]

\* lines 130-134
DumpMacros ==
    /\ pc = "includes_done"
    /\ \E rc \in ReturnCodes :
         /\ calls' = Append(calls, Invocation("macros", gcc_cmd(a_arch), <<"-dM", "-E">>,
                                              empty_file, rc))
         /\ IF GccFailed(rc)
            THEN /\ Exit(GccFailedMsg, 1, hdr, optf)
                 /\ UNCHANGED <<gccOut, out, opts>>
            ELSE \E text \in DumpTexts :
                 LET r == AppendDefines(splitlines(text), 1, opts)
                 IN  /\ gccOut' = text
                     /\ out' = splitlines(text)
                     /\ opts' = r.opts
                     /\ IF r.ok
                        THEN /\ pc' = "macros_done"
                             /\ UNCHANGED <<status, printed, hdr, optf>>
                        ELSE Exit(TypeErrorMsg, 1, hdr, optf)
    /\ UNCHANGED args
    /\ UNCHANGED srcVars

\* lines 136-137
WriteOptions ==
    /\ pc = "macros_done"
    /\ optf' = [optf EXCEPT !.buf = @ \o [k \in 1..Len(opts) |-> opts[k] \o <<"\n">>]]
    /\ pc' = "opt_written"
    /\ UNCHANGED <<args, status, printed, calls, hdr, opts, gccOut, out>>
    /\ UNCHANGED srcVars

\* end of the with block of line 122 and of the script
CloseOptions ==
    /\ pc = "opt_written"
    /\ optf' = Closed(optf)
    /\ status' = 0
    /\ pc' = "done"
    /\ UNCHANGED <<args, printed, calls, hdr, opts, gccOut, out>>
    /\ UNCHANGED srcVars

Next ==
    \/ CheckArgc \/ CheckArch
    \/ OpenHeader \/ WritePrologue \/ PreprocessHeader \/ CloseHeader
    \/ OpenOptions \/ DiscoverIncludes \/ DumpMacros \/ WriteOptions \/ CloseOptions

Spec == Init /\ [][Next]_vars

----------------------------------------------------------------------------
\* Properties of the script

Steps == <<"preprocess", "verbose", "macros">>

\* position of a pc value in the script
Rank(p) ==
    CASE p = "start" -> 0 [] p = "argc_ok" -> 1 [] p = "arch_ok" -> 2
      [] p = "hdr_open" -> 3 [] p = "hdr_prologue" -> 4 [] p = "hdr_written" -> 5
      [] p = "hdr_closed" -> 6 [] p = "opt_open" -> 7 [] p = "includes_done" -> 8
      [] p = "macros_done" -> 9 [] p = "opt_written" -> 10 [] p = "done" -> 11
      [] p = "exited" -> 12

Last(s) == s[Len(s)]
OnDisk(f) == f.state # "absent"

\* C4: when the compiler invocation of the header-flattening step exits
\* non-zero, the error is printed, the process ends with a non-zero status and
\* the header file is not on disk holding the prologue only.
C4_NoPartialHeader ==
    (pc = "exited" /\ Len(calls) = 1 /\ calls[1].rc # 0)
    => /\ status > 0
       /\ Last(printed) = GccFailedMsg
       /\ ~(OnDisk(hdr) /\ hdr.disk = <<DEFAULT_SOURCE>>)

\* C5: with exactly two positional arguments and an architecture that is
\* neither 32 nor 64, the script never gets past the architecture check: no
\* compiler is invoked, neither output file is created, and it ends with the
\* architecture error as its only message and status 1.
C5_BadArchExits ==
    (Len(args) = 2 /\ args[2] \notin {"32", "64"})
    => /\ pc \in {"start", "argc_ok", "exited"}
       /\ calls = <<>> /\ ~OnDisk(hdr) /\ ~OnDisk(optf)
       /\ pc = "exited" => (status = 1 /\ printed = <<ArchMsg>>)

C5_Witness ==
    /\ pc = "exited" /\ args = <<"d3d9", "99">> /\ status = 1
    /\ printed = <<ArchMsg>> /\ hdr = Absent /\ optf = Absent

\* C6: with 0, 1 or more than 2 positional arguments the script ends at the
\* argument-count check: usage message as its only message, status 1, no
\* architecture check, no compiler invocation, no output file.
C6_BadArgcExits ==
    Len(args) # 2
    => /\ pc \in {"start", "exited"}
       /\ calls = <<>> /\ ~OnDisk(hdr) /\ ~OnDisk(optf)
       /\ pc = "exited" => (status = 1 /\ printed = <<UsageMsg>>)

C6_Witness == pc = "exited" /\ Len(args) = 3 /\ args[2] = "32" /\ printed = <<UsageMsg>>

\* C7 (state part): the compiler invocations made so far are a prefix of
\* preprocess, verbose, macros; every invocation but the last exited with
\* status 0; a non-zero exit is the last thing that happened in the run; the
\* options file exists only once the header is closed with prologue and body;
\* exit 0 is reached only after all three invocations and both files.
C7_Sequential ==
    /\ Len(calls) <= 3
    /\ \A i \in 1..Len(calls) : calls[i].step = Steps[i]
    /\ \A i \in 1..(Len(calls) - 1) : calls[i].rc = 0
    /\ (calls # <<>> /\ Last(calls).rc # 0) => (pc = "exited" /\ status = 1)
    /\ OnDisk(optf) => (hdr.state = "closed" /\ Len(hdr.disk) = 2 /\ Len(calls) >= 1)
    /\ Len(calls) >= 2 => OnDisk(optf)
    /\ status = 0 => /\ pc = "done" /\ Len(calls) = 3
                     /\ hdr.state = "closed" /\ optf.state = "closed"

\* C7: every run is linear - each step moves the script forward, never back -
\* with at most three compiler invocations in the order preprocess, verbose,
\* macros, each after the previous one exited 0, the options file opened after
\* the header is closed, and nothing executed after a non-zero compiler exit.
C7_Linear == []C7_Sequential /\ [][Rank(pc') > Rank(pc) /\ Len(calls') <= Len(calls) + 1]_vars

C7_Witness == status = 0 /\ Len(calls) = 3 /\ pc = "done"

\* C8: the option list, and the options file once written, carry the 32-bit
\* default-macro table right after the MinGW flags for architecture 32 and
\* for architecture 64, also though the 64-bit compiler is the one invoked;
\* no flag that only the 64-bit table has is written.
C8_Always32Table ==
    /\ Rank(pc) \in 7..11 =>
          SubSeq(opts, 1, Len(MINGW_OPTIONS) + Len(DEFAULT_OPTIONS_32))
              = MINGW_OPTIONS \o DEFAULT_OPTIONS_32
    /\ (OnDisk(optf) /\ optf.disk # <<>>) =>
          /\ \A k \in 1..Len(DEFAULT_OPTIONS_32) :
                optf.disk[Len(MINGW_OPTIONS) + k] = DEFAULT_OPTIONS_32[k] \o <<"\n">>
          /\ \A k \in 1..Len(optf.disk) :
                optf.disk[k] \notin { <<"-D__WORDSIZE=64", "\n">>, <<"-D__need_sigset_t", "\n">> }

C8_Witness ==
    /\ pc = "done" /\ a_arch = "64" /\ optf.disk # <<>>
    /\ optf.name = <<a_name, "_", "64", "_parser_options.txt">>
    /\ \A i \in 1..3 : calls[i].argv[1] = "x86_64-w64-mingw32-gcc"

StaticCount == Len(MINGW_OPTIONS) + Len(DEFAULT_OPTIONS_32)

\* the line without its leading whitespace, and without its trailing whitespace
RECURSIVE DropLeading(_)
DropLeading(l) == IF l # <<>> /\ IsSpace(Head(l)) THEN DropLeading(Tail(l)) ELSE l
RECURSIVE DropTrailing(_)
DropTrailing(l) ==
    IF l # <<>> /\ IsSpace(l[Len(l)]) THEN DropTrailing(SubSeq(l, 1, Len(l) - 1)) ELSE l

Occurrences(l, x) == {i \in 1..Len(l) : l[i] = x}

\* C3: when the verbose compile output has the line
\* "#include <...> search starts here:" and the line "End of search list."
\* (each once), the include flags added to the option list are exactly the
\* lines strictly between the two, in order, each without its surrounding
\* whitespace and prefixed with -I; nothing else is added.
C3_IncludesBetweenMarkers ==
    (/\ pc = "includes_done"
     /\ Cardinality(Occurrences(out, <<StartMarker>>)) = 1
     /\ Cardinality(Occurrences(out, <<EndMarker>>)) = 1)
    => LET s == CHOOSE i \in Occurrences(out, <<StartMarker>>) : TRUE
           e == CHOOSE i \in Occurrences(out, <<EndMarker>>) : TRUE
           between == IF e > s THEN e - s - 1 ELSE 0
       IN  /\ Len(opts) = StaticCount + between
           /\ \A k \in 1..between :
                 opts[StaticCount + k] = <<"-I">> \o DropTrailing(DropLeading(out[s + k]))

\* C3 witness: two include paths with surrounding whitespace between the
\* markers, and a line after the end marker that yields no flag.
C3_Witness ==
    /\ pc = "includes_done"
    /\ out = << <<StartMarker>>, <<" ", "/lib/gcc", " ", "include", " ">>,
                <<" ", "/mingw/include">>, <<EndMarker>> >>
    /\ Len(opts) = StaticCount + 2
    /\ opts[StaticCount + 1] = <<"-I", "/lib/gcc", " ", "include">>

\* A line of the shape the pattern accepts: "#define ", then a further space
\* somewhere after it.
Matchable(line) ==
    \E i \in 1..Len(line) :
        /\ line[i] = "#define" /\ i + 1 <= Len(line) /\ line[i + 1] = " "
        /\ \E j \in (i + 2)..Len(line) : line[j] = " "

\* the text up to the first space
RECURSIVE UpToSpace(_)
UpToSpace(l) == IF l = <<>> \/ Head(l) = " " THEN <<>> ELSE <<Head(l)>> \o UpToSpace(Tail(l))

\* -DNAME="VALUE" of a matchable line: NAME is the text up to the first space
\* after the first "#define ", VALUE the whole remainder of the line.
RECURSIVE ExpectedDefine(_)
ExpectedDefine(line) ==
    IF Len(line) >= 2 /\ line[1] = "#define" /\ line[2] = " "
          /\ Contains(SubSeq(line, 3, Len(line)), " ")
    THEN LET rest == SubSeq(line, 3, Len(line))
             name == UpToSpace(rest)
         IN  <<"-D">> \o name \o <<"=\"">> \o SubSeq(rest, Len(name) + 2, Len(rest)) \o <<"\"">>
    ELSE ExpectedDefine(Tail(line))

MacroDumpReturned == Len(calls) = 3 /\ calls[3].rc = 0

\* C9 as stated: every line of the macro dump yields exactly one define flag
\* -DNAME="VALUE", in output order, after the include flags; no line is
\* skipped and none aborts the run.
C9_EveryLineOneFlag ==
    MacroDumpReturned
    => /\ pc # "exited"
       /\ Len(opts) >= StaticCount + Len(out)
       /\ \A k \in 1..Len(out) :
             Matchable(out[k]) /\ opts[Len(opts) - Len(out) + k] = ExpectedDefine(out[k])

\* C9 amended (state part): when every line of the macro dump is matchable,
\* the run goes on and the option list ends with one flag -DNAME="VALUE" per
\* line, in output order; when some line is not, the run aborts with a
\* TypeError, status 1, and nothing is written to the options file.
C9_AfterDump ==
    MacroDumpReturned
    => IF \A k \in 1..Len(out) : Matchable(out[k])
       THEN /\ pc # "exited"
            /\ Len(opts) >= StaticCount + Len(out)
            /\ \A k \in 1..Len(out) :
                  opts[Len(opts) - Len(out) + k] = ExpectedDefine(out[k])
       ELSE /\ pc = "exited" /\ status = 1 /\ Last(printed) = TypeErrorMsg
            /\ optf.state = "closed" /\ optf.disk = <<>>

\* C9 amended (step part): the define flags are appended after the include
\* flags, which stay as they were, exactly one per line.
C9_DumpStep ==
    (pc = "includes_done" /\ pc' = "macros_done")
    => /\ Len(opts') = Len(opts) + Len(out')
       /\ SubSeq(opts', 1, Len(opts)) = opts

\* C9 amended: every matchable line of the macro dump yields exactly one
\* define flag -DNAME="VALUE" (NAME up to the first space after "#define ",
\* VALUE the whole remainder), in output order, after all include flags, and
\* no such line is skipped; a line that is not matchable aborts the run.
C9_MatchableLinesOneFlag == []C9_AfterDump /\ [][C9_DumpStep]_vars

\* C9 witness: a dump of two matchable lines, one whose value holds a space.
C9_Witness ==
    /\ pc = "macros_done"
    /\ out = << <<"#define", " ", "__VERSION__", " ", "\"13\"", " ", "\"win32\"">>,
                <<"#define", " ", "__USER_LABEL_PREFIX__", " ">> >>
    /\ opts[Len(opts) - 1] = <<"-D", "__VERSION__", "=\"", "\"13\"", " ", "\"win32\"", "\"">>
    /\ opts[Len(opts)] = <<"-D", "__USER_LABEL_PREFIX__", "=\"", "\"">>

DiscoveryFailed == Len(calls) \in {2, 3} /\ Last(calls).rc # 0

\* C10 (state part): after a non-zero exit of either discovery invocation
\* the run has ended with status 1, the header file is closed holding the
\* prologue and the sanitized text, and the options file exists, closed and
\* empty; the options file holds a flag line only if both discovery
\* invocations exited 0; the header is written as prologue plus sanitized text.
C10_State ==
    /\ DiscoveryFailed =>
          /\ pc = "exited" /\ status = 1
          /\ hdr.state = "closed" /\ Len(hdr.disk) = 2 /\ hdr.disk[1] = DEFAULT_SOURCE
          /\ optf.state = "closed" /\ optf.disk = <<>>
    /\ (optf.disk # <<>> \/ optf.buf # <<>>) =>
          (Len(calls) = 3 /\ \A i \in 1..3 : calls[i].rc = 0)
    /\ pc = "hdr_closed" => hdr.disk = <<DEFAULT_SOURCE, process_source(gccOut)>>

\* C10 (step part): once the options file exists it is never removed, and
\* the closed header is never touched again.
C10_Step ==
    /\ OnDisk(optf) => (OnDisk(optf') /\ hdr' = hdr)
    /\ hdr.state = "closed" => hdr' = hdr

\* C10: a non-zero exit of either invocation of the option-generation step
\* ends the run with status 1, the header complete and the options file
\* existing but empty; no flag line is written unless both invocations
\* succeeded; nothing is deleted or cleaned up.
C10_FailureLeavesEmptyOptions == []C10_State /\ [][C10_Step]_vars

\* C10 witness: the macro dump invocation failed after the verbose one succeeded.
C10_Witness ==
    /\ pc = "exited" /\ Len(calls) = 3 /\ calls[3].rc = 1 /\ calls[2].rc = 0
    /\ optf.state = "closed" /\ optf.disk = <<>> /\ Len(opts) > StaticCount

====
